---- MODULE Spec2Model ----
(***************************************************************************)
(* A model of ncmpp: the NCM container decoder of ncmlib (NcmFile.cpp,     *)
(* pkcs7.cpp, utils.cpp, ncmdump.cpp) and the batch layer of ncmpp         *)
(* (app_logic.cpp, pool.h).                                                *)
(*                                                                         *)
(* Bytes are the integers 0..255.  An unsigned int is represented by the   *)
(* integer of -2^31..2^31-1 that has the same 32 bits (two's complement):  *)
(* a negative n stands for the unsigned value 2^32 + n, so that sums and   *)
(* differences of small values wrap as the code's do, and comparisons are  *)
(* made with ULess.  A C++ vector or array indexed 0..n-1 is either a      *)
(* function on 0..n-1 (the key box) or a sequence whose element k+1 is the *)
(* code's element k.  A buffer handed over as a pointer and a length is a  *)
(* function on 1..n and the length n; the elements of a long buffer are    *)
(* computed only where the code's result depends on them.                  *)
(***************************************************************************)
EXTENDS Integers, Sequences, FiniteSets, TLC

Byte == 0..255

\* a < b on unsigned int: the values with the top bit set (negative
\* representatives) are above all the others
ULess(a, b) == IF (a < 0) = (b < 0) THEN a < b ELSE b < 0

\* ------------------------------------------------------------------------
\* Byte operations

RECURSIVE BitXor(_, _, _)
\* exclusive or of the low n bits of a and b
BitXor(a, b, n) ==
    IF n = 0 THEN 0
    ELSE ((a + b) % 2) + 2 * BitXor(a \div 2, b \div 2, n - 1)

\* the exclusive-or table of two 4-bit values, computed once
XorNibble == [a \in 0..15 |-> [b \in 0..15 |-> BitXor(a, b, 4)]]

\* the ^ operator on two unsigned chars
Xor(a, b) ==
    16 * XorNibble[a \div 16][b \div 16] + XorNibble[a % 16][b % 16]

\* buf[i] ^= mask for every i (NcmFile.cpp:163-165 and 228-230)
XorMask(buf, len, mask) == [k \in 1..len |-> Xor(buf[k], mask)]

\* utils::little_int: four bytes, least significant first
little_int(src) ==
    LET top == IF src[4] >= 128 THEN src[4] - 256 ELSE src[4]
    IN  ((top * 256 + src[3]) * 256 + src[2]) * 256 + src[1]

Zeros(n) == [k \in 1..n |-> 0]

\* ------------------------------------------------------------------------
\* The block cipher service: AES-128, single-block (ECB) mode, no padding,
\* as OpenSSL's EVP_aes_128_ecb computes it (FIPS-197, inverse cipher).

SBox ==
  <<
     99, 124, 119, 123, 242, 107, 111, 197,  48,   1, 103,  43, 254, 215, 171, 118,
    202, 130, 201, 125, 250,  89,  71, 240, 173, 212, 162, 175, 156, 164, 114, 192,
    183, 253, 147,  38,  54,  63, 247, 204,  52, 165, 229, 241, 113, 216,  49,  21,
      4, 199,  35, 195,  24, 150,   5, 154,   7,  18, 128, 226, 235,  39, 178, 117,
      9, 131,  44,  26,  27, 110,  90, 160,  82,  59, 214, 179,  41, 227,  47, 132,
     83, 209,   0, 237,  32, 252, 177,  91, 106, 203, 190,  57,  74,  76,  88, 207,
    208, 239, 170, 251,  67,  77,  51, 133,  69, 249,   2, 127,  80,  60, 159, 168,
     81, 163,  64, 143, 146, 157,  56, 245, 188, 182, 218,  33,  16, 255, 243, 210,
    205,  12,  19, 236,  95, 151,  68,  23, 196, 167, 126,  61, 100,  93,  25, 115,
     96, 129,  79, 220,  34,  42, 144, 136,  70, 238, 184,  20, 222,  94,  11, 219,
    224,  50,  58,  10,  73,   6,  36,  92, 194, 211, 172,  98, 145, 149, 228, 121,
    231, 200,  55, 109, 141, 213,  78, 169, 108,  86, 244, 234, 101, 122, 174,   8,
    186, 120,  37,  46,  28, 166, 180, 198, 232, 221, 116,  31,  75, 189, 139, 138,
    112,  62, 181, 102,  72,   3, 246,  14,  97,  53,  87, 185, 134, 193,  29, 158,
    225, 248, 152,  17, 105, 217, 142, 148, 155,  30, 135, 233, 206,  85,  40, 223,
    140, 161, 137,  13, 191, 230,  66, 104,  65, 153,  45,  15, 176,  84, 187,  22
  >>

InvSBox ==
  <<
     82,   9, 106, 213,  48,  54, 165,  56, 191,  64, 163, 158, 129, 243, 215, 251,
    124, 227,  57, 130, 155,  47, 255, 135,  52, 142,  67,  68, 196, 222, 233, 203,
     84, 123, 148,  50, 166, 194,  35,  61, 238,  76, 149,  11,  66, 250, 195,  78,
      8,  46, 161, 102,  40, 217,  36, 178, 118,  91, 162,  73, 109, 139, 209,  37,
    114, 248, 246, 100, 134, 104, 152,  22, 212, 164,  92, 204,  93, 101, 182, 146,
    108, 112,  72,  80, 253, 237, 185, 218,  94,  21,  70,  87, 167, 141, 157, 132,
    144, 216, 171,   0, 140, 188, 211,  10, 247, 228,  88,   5, 184, 179,  69,   6,
    208,  44,  30, 143, 202,  63,  15,   2, 193, 175, 189,   3,   1,  19, 138, 107,
     58, 145,  17,  65,  79, 103, 220, 234, 151, 242, 207, 206, 240, 180, 230, 115,
    150, 172, 116,  34, 231, 173,  53, 133, 226, 249,  55, 232,  28, 117, 223, 110,
     71, 241,  26, 113,  29,  41, 197, 137, 111, 183,  98,  14, 170,  24, 190,  27,
    252,  86,  62,  75, 198, 210, 121,  32, 154, 219, 192, 254, 120, 205,  90, 244,
     31, 221, 168,  51, 136,   7, 199,  49, 177,  18,  16,  89,  39, 128, 236,  95,
     96,  81, 127, 169,  25, 181,  74,  13,  45, 229, 122, 159, 147, 201, 156, 239,
    160, 224,  59,  77, 174,  42, 245, 176, 200, 235, 187,  60, 131,  83, 153,  97,
     23,  43,   4, 126, 186, 119, 214,  38, 225, 105,  20,  99,  85,  33,  12, 125
  >>

Rcon == <<1, 2, 4, 8, 16, 32, 64, 128, 27, 54>>

\* multiplication by x in GF(2^8) modulo x^8 + x^4 + x^3 + x + 1
XTime(a) == IF 2 * a >= 256 THEN Xor((2 * a) % 256, 27) ELSE 2 * a

GMul9(a)  == Xor(XTime(XTime(XTime(a))), a)
GMul11(a) == Xor(Xor(XTime(XTime(XTime(a))), XTime(a)), a)
GMul13(a) == Xor(Xor(XTime(XTime(XTime(a))), XTime(XTime(a))), a)
GMul14(a) == Xor(Xor(XTime(XTime(XTime(a))), XTime(XTime(a))), XTime(a))

RECURSIVE ExpandWords(_, _)
\* the key schedule: w holds 4*i bytes (words 0..i-1); extend it to 44 words
ExpandWords(w, i) ==
    IF i = 44 THEN w
    ELSE LET prev(k) == w[4 * (i - 1) + k]
             back(k) == w[4 * (i - 4) + k]
             t == IF i % 4 = 0
                  THEN << Xor(SBox[prev(2) + 1], Rcon[i \div 4]),
                          SBox[prev(3) + 1], SBox[prev(4) + 1], SBox[prev(1) + 1] >>
                  ELSE << prev(1), prev(2), prev(3), prev(4) >>
         IN  ExpandWords(w \o [k \in 1..4 |-> Xor(back(k), t[k])], i + 1)

\* the 11 round keys of a 16-byte key, 176 bytes
ExpandKey(key) == ExpandWords(key, 4)

AddRoundKey(s, w, r) == [k \in 1..16 |-> Xor(s[k], w[16 * r + k])]

\* byte k (0-based, column-major) of the state: row k % 4, column k \div 4
InvShiftRows(s) ==
    [k \in 1..16 |->
        LET row == (k - 1) % 4
            col == (k - 1) \div 4
        IN  s[row + 4 * ((col - row) % 4) + 1]]

InvSubBytes(s) == [k \in 1..16 |-> InvSBox[s[k] + 1]]

InvMixColumns(s) ==
    [k \in 1..16 |->
        LET row == (k - 1) % 4
            base == 4 * ((k - 1) \div 4)
            a(d) == s[base + ((row + d) % 4) + 1]
        IN  Xor(Xor(GMul14(a(0)), GMul11(a(1))), Xor(GMul13(a(2)), GMul9(a(3))))]

\* the same 16 bytes as an array in memory, every element computed
Block(s) ==
    << s[1], s[2], s[3], s[4], s[5], s[6], s[7], s[8],
       s[9], s[10], s[11], s[12], s[13], s[14], s[15], s[16] >>

RECURSIVE InvRounds(_, _, _)
\* rounds n, n-1, .., 1 and the final round of the inverse cipher, on the
\* 16-byte state st (taking its length computes st before the next round)
InvRounds(st, rk, n) ==
    IF Len(st) = 16 /\ n > 0
    THEN InvRounds(
            Block(InvMixColumns(AddRoundKey(InvSubBytes(InvShiftRows(st)), rk, n))),
            rk, n - 1)
    ELSE Block(AddRoundKey(InvSubBytes(InvShiftRows(st)), rk, 0))

\* one 16-byte block decrypted under the round keys w
DecryptBlock(ct, w) == InvRounds(Block(AddRoundKey(ct, w, 10)), w, 9)

HexDigits ==
    << "0", "1", "2", "3", "4", "5", "6", "7",
       "8", "9", "A", "B", "C", "D", "E", "F" >>

\* the value of one hexadecimal digit, as `ss >> std::hex` reads it
HexValue(ch) == (CHOOSE d \in 1..16 : HexDigits[d] = ch) - 1

\* utils::hex2str: 32 hexadecimal characters to 16 bytes
hex2str(src) == [i \in 1..16 |-> 16 * HexValue(src[2 * i - 1]) + HexValue(src[2 * i])]

\* "687A4852416D736F356B496E62617857"
CORE_HEX_KEY ==
    << "6", "8", "7", "A", "4", "8", "5", "2", "4", "1", "6", "D", "7", "3", "6", "F",
       "3", "5", "6", "B", "4", "9", "6", "E", "6", "2", "6", "1", "7", "8", "5", "7" >>

\* "2331346C6A6B5F215C5D2630553C2728"
META_HEX_KEY ==
    << "2", "3", "3", "1", "3", "4", "6", "C", "6", "A", "6", "B", "5", "F", "2", "1",
       "5", "C", "5", "D", "2", "6", "3", "0", "5", "5", "3", "C", "2", "7", "2", "8" >>

\* the round keys of the two fixed keys, computed once
CoreRoundKeys == ExpandKey(hex2str(CORE_HEX_KEY))
MetaRoundKeys == ExpandKey(hex2str(META_HEX_KEY))

\* the first n blocks of ct, decrypted
RECURSIVE DecryptFirst(_, _, _)
DecryptFirst(ct, n, w) ==
    IF n = 0 THEN << >>
    ELSE DecryptFirst(ct, n - 1, w)
            \o DecryptBlock([j \in 1..16 |-> ct[16 * (n - 1) + j]], w)

\* the len bytes of ct decrypted block by block.  A plaintext of up to 64
\* blocks is computed at once; of a longer one, byte k is computed when it
\* is asked for, as a byte of the decryption of the block of ct that holds
\* byte k
DecryptBlocks(ct, len, w) ==
    IF len <= 64 * 16 THEN DecryptFirst(ct, len \div 16, w)
    ELSE [k \in 1..len |->
            LET first == 16 * ((k - 1) \div 16)
            IN  DecryptBlock([j \in 1..16 |-> ct[first + j]], w)[k - first]]

\* what aes_ecb_decrypt(ciphertext, ciphertext_len, key) throws, "" when
\* it returns.  ciphertext_len is an int: a length with the top bit set
\* arrives as a negative number, and the constructor of
\* vector<unsigned char> plaintext(ciphertext_len) throws std::length_error.
\* With the cipher's padding disabled EVP_DecryptFinal_ex fails when the
\* input is not a whole number of 16-byte blocks, and the function throws.
aes_ecb_thrown(ciphertext_len) ==
    IF ciphertext_len < 0
    THEN "cannot create std::vector larger than max_size()"
    ELSE IF ciphertext_len % 16 # 0
    THEN "Failed to finalize EVP decryption"
    ELSE ""

\* the plaintext aes_ecb_decrypt returns when it throws nothing: it has the
\* ciphertext's length
aes_ecb_decrypt(ciphertext, ciphertext_len, w) ==
    DecryptBlocks(ciphertext, ciphertext_len, w)

\* ------------------------------------------------------------------------
\* PKCS#7 un-padding (pkcs7.cpp)

\* the indices pad_size inspects in its validation loop:
\* for (unsigned int i = len_ - padlen; i < len_; i++)
PadLoopIndices(len, padlen) ==
    IF ULess(len - padlen, len) THEN (len - padlen) .. (len - 1) ELSE {}

\* pkcs7::pad_size(src_, len_): the unpadded size, or the exception thrown
pad_size(src, len) ==
    LET padlen == src[len]
    IN  IF len = 0 THEN [thrown |-> "", size |-> 0]
        ELSE IF padlen = 0 \/ padlen > 16
        THEN [thrown |-> "Invalid PKCS#7 padding length", size |-> 0]
        ELSE IF \E i \in PadLoopIndices(len, padlen) : src[i + 1] # padlen
        THEN [thrown |-> "Invalid PKCS#7 padding bytes", size |-> 0]
        ELSE [thrown |-> "", size |-> len - padlen]

\* pkcs7::unpad(src_, len_, tgt_): copies size bytes of src_ to tgt_.
\* outcome "thrown": pad_size threw; "copied": tgt holds the bytes copied;
\* "out_of_bounds": the copy loop runs past the len_ bytes of src_
\* (size > len_), which is undefined behaviour.
unpad(src, len) ==
    LET r == pad_size(src, len)
    IN  IF r.thrown # ""
        THEN [outcome |-> "thrown", thrown |-> r.thrown, tgt |-> << >>]
        ELSE IF ULess(len, r.size)
        THEN [outcome |-> "out_of_bounds", thrown |-> "", tgt |-> << >>]
        ELSE [outcome |-> "copied", thrown |-> "",
              tgt |-> [k \in 1..r.size |-> src[k]]]

\* ------------------------------------------------------------------------
\* The key box (NcmFile::_setup_key_box) and the payload transform

\* a byte whose value the program does not determine: it comes from memory
\* outside the object that was read, or is computed from such a byte
Undetermined == -1

\* a key box built from undetermined bytes: every entry may have been
\* swapped with any other
UndeterminedBox == [i \in 0..255 |-> Undetermined]

\* the first 17 bytes of the key data are skipped: key_data_use = data() + 17
KeyPrefixLen == 17

\* for (i = 0; i < 256; i++) _key_box[i] = i
IdentityBox == [i \in 0..255 |-> i]

\* key_data_use[key_offset] is element 17 + key_offset of _key_data
KeyIndex(key_offset) == KeyPrefixLen + key_offset

\* the read of key_data_use[key_offset] is inside the vector
KeyIndexInBounds(key_data, key_offset) == KeyIndex(key_offset) < Len(key_data)

\* c = (swap + last_byte + key_data_use[key_offset]) & 0xff
NextC(box, i, last_byte, seed_byte) == (box[i] + last_byte + seed_byte) % 256

\* key_len_unpad - 17, computed in unsigned int: negative here when it wraps
EffectiveSeedLen(key_len_unpad) == key_len_unpad - KeyPrefixLen

\* key_offset++; if (key_offset >= key_len_unpad - 17) key_offset = 0;
NextKeyOffset(key_offset, key_len_unpad) ==
    IF ULess(key_offset + 1, EffectiveSeedLen(key_len_unpad))
    THEN key_offset + 1 ELSE 0

\* a swap written without the temporary: both entries end as box[c]
SwapEntriesNoTemp(box, i, c) == [box EXCEPT ![i] = box[c], ![c] = box[c]]

\* swap = _key_box[i]; _key_box[i] = _key_box[c]; _key_box[c] = swap
SwapEntries(box, i, c) == [box EXCEPT ![i] = box[c], ![c] = box[i]]

\* every value 0..255 appears exactly once among the 256 entries
IsPermutation(box) ==
    /\ DOMAIN box = 0..255
    /\ { box[i] : i \in 0..255 } = 0..255

\* _key_box[(_key_box[j] + _key_box[(_key_box[j] + j) & 0xff]) & 0xff]
\* with j = (i + 1) & 0xff
KeystreamByte(box, i) ==
    LET j == (i + 1) % 256
    IN  IF box[j] = Undetermined THEN Undetermined
        ELSE box[(box[j] + box[(box[j] + j) % 256]) % 256]

\* a transform that adds the keystream byte instead of xoring it
AddKeystream(b, k) == (b + k) % 256

\* buff[i] ^= keystream byte
ApplyKeystream(b, k) == IF k = Undetermined THEN Undetermined ELSE Xor(b, k)

\* the decryption loop over one chunk: i is the offset inside the chunk
DescrambleChunk(box, buff) ==
    [k \in 1..Len(buff) |-> ApplyKeystream(buff[k], KeystreamByte(box, k - 1))]

\* ------------------------------------------------------------------------
\* The metadata services: base64 text decoding and the JSON document

IsBase64(c) == c \in (65..90) \cup (97..122) \cup (48..57) \cup {43, 47}

\* the 6-bit value of a base64 character: A-Z, a-z, 0-9, +, /
Base64Value(c) ==
    IF c \in 65..90 THEN c - 65
    ELSE IF c \in 97..122 THEN c - 71
    ELSE IF c \in 48..57 THEN c + 4
    ELSE IF c = 43 THEN 62 ELSE 63

\* the number of leading base64 characters of the len characters of text
\* (decoding stops at the first '=' or other character), for a text whose
\* characters after the first `filled` are all the same: the part of a
\* value-initialised vector that no read has written
Base64Run(text, len, filled) ==
    LET scan == IF filled < len THEN filled + 1 ELSE len
    IN  IF \A k \in 1..scan : IsBase64(text[k]) THEN len
        ELSE (CHOOSE k \in 1..scan :
                /\ ~IsBase64(text[k])
                /\ \A m \in 1..(k - 1) : IsBase64(text[m])) - 1

\* the length of the string base64_decode returns for a run of n base64
\* characters: every 4 characters give 3 bytes; a last group of 2 or 3
\* characters gives 1 or 2 bytes
Base64DecodedLen(n) ==
    3 * (n \div 4) + (IF n % 4 > 1 THEN (n % 4) - 1 ELSE 0)

\* base64_decode: the bytes of the string it returns for a run of n base64
\* characters at the start of text
base64_decode(text, n) ==
    LET v(g, j) == IF 4 * g + j <= n THEN Base64Value(text[4 * g + j]) ELSE 0
        byte(g, idx) ==
            IF idx = 0 THEN 4 * v(g, 1) + (v(g, 2) \div 16)
            ELSE IF idx = 1 THEN 16 * (v(g, 2) % 16) + (v(g, 3) \div 4)
            ELSE 64 * (v(g, 3) % 4) + v(g, 4)
    IN  [k \in 1..Base64DecodedLen(n) |-> byte((k - 1) \div 3, (k - 1) % 3)]

\* {"format":"
FormatOpen == << 123, 34, 102, 111, 114, 109, 97, 116, 34, 58, 34 >>
\* "}
FormatClose == << 34, 125 >>

\* the document before any Parse: a Null value
NullDocument == [type |-> "null", has_format |-> FALSE, format |-> << >>]

\* rapidjson::Document::Parse on the texts of the model's metadata blocks:
\* {"format":"<letters and digits>"} parses to an object with that string
\* member; {} parses to an object with no member; any other text here is
\* not JSON, and a failed Parse leaves the document a Null value.
ParseDocument(text) ==
    LET n == Len(text)
        value == SubSeq(text, Len(FormatOpen) + 1, n - Len(FormatClose))
    IN  IF /\ n >= Len(FormatOpen) + Len(FormatClose)
           /\ SubSeq(text, 1, Len(FormatOpen)) = FormatOpen
           /\ SubSeq(text, n - Len(FormatClose) + 1, n) = FormatClose
           /\ \A k \in 1..Len(value) :
                value[k] \in (48..57) \cup (65..90) \cup (97..122)
        THEN [type |-> "object", has_format |-> TRUE, format |-> value]
        ELSE IF text = << 123, 125 >>
        THEN [type |-> "object", has_format |-> FALSE, format |-> << >>]
        ELSE NullDocument

\* ------------------------------------------------------------------------
\* Containers of the model

\* stored key block: plaintext "neteasecloudmusic" \o <<69>> (18 bytes), padded with 14 bytes of 14
KeyBlock18 ==
    << 44, 206, 213, 235, 105, 234, 251, 20, 85, 13, 69, 191, 97, 221, 23, 29,
       174, 192, 29, 190, 106, 157, 139, 217, 8, 152, 1, 14, 82, 44, 227, 15 >>

\* stored key block: plaintext "neteasecloudmusic" \o <<49, 50, 51>> (20 bytes), padded with 12 bytes of 12
KeyBlock20 ==
    << 44, 206, 213, 235, 105, 234, 251, 20, 85, 13, 69, 191, 97, 221, 23, 29,
       236, 197, 194, 18, 86, 188, 249, 191, 235, 199, 133, 152, 5, 185, 22, 58 >>

\* stored key block: plaintext "neteasecloudmusic" \o 14 seed bytes (31 bytes), padded with one byte 1
KeyBlock31 ==
    << 44, 206, 213, 235, 105, 234, 251, 20, 85, 13, 69, 191, 97, 221, 23, 29,
       27, 83, 76, 42, 34, 119, 82, 55, 40, 172, 110, 45, 62, 199, 114, 224 >>

\* stored key block: plaintext "neteasecloudmusic" alone (17 bytes), padded with 15 bytes of 15
KeyBlock17 ==
    << 44, 206, 213, 235, 105, 234, 251, 20, 85, 13, 69, 191, 97, 221, 23, 29,
       54, 127, 55, 31, 194, 187, 176, 161, 199, 70, 183, 81, 27, 64, 99, 107 >>

\* stored key block: plaintext "netea" (5 bytes), padded with 11 bytes of 11
KeyBlock5 ==
    << 102, 173, 255, 250, 160, 112, 69, 253, 100, 32, 131, 167, 139, 67, 141, 131 >>

\* stored key block: the empty plaintext, padded with 16 bytes of 16
KeyBlock0 ==
    << 131, 39, 243, 211, 36, 10, 147, 161, 71, 163, 246, 102, 179, 90, 74, 232 >>

\* stored key block: plaintext "neteasecloudmusic" \o <<0, 33>> (19 bytes), padded with 13 bytes of 13;
\* the last stored byte is 0
KeyBlockEndsZero ==
    << 44, 206, 213, 235, 105, 234, 251, 20, 85, 13, 69, 191, 97, 221, 23, 29,
       160, 35, 158, 203, 1, 165, 23, 21, 44, 124, 135, 186, 95, 28, 8, 0 >>

\* stored key block: plaintext "neteasecloudmusic" \o <<1, 2, 3>> \o 12 zero bytes (last byte 0: no padding)
KeyBlockBadPad ==
    << 44, 206, 213, 235, 105, 234, 251, 20, 85, 13, 69, 191, 97, 221, 23, 29,
       213, 143, 230, 102, 71, 72, 173, 252, 230, 149, 94, 104, 192, 82, 18, 151 >>

\* stored metadata block of the text music:{"format":"mp3"}
MetaMp3 ==
    << 82, 85, 80, 67, 8, 6, 26, 75, 39, 12, 13, 68, 23, 67, 14, 12,
       7, 10, 5, 26, 74, 89, 0, 38, 4, 23, 18, 43, 27, 20, 19, 7,
       49, 40, 0, 33, 32, 49, 51, 33, 15, 51, 8, 9, 25, 86, 84, 50,
       4, 39, 14, 0, 45, 14, 36, 8, 57, 7, 86, 17, 81, 25, 15, 86,
       58, 94 >>

\* stored metadata block of the text music:{"format":"flac"}
MetaFlac ==
    << 82, 85, 80, 67, 8, 6, 26, 75, 39, 12, 13, 68, 23, 67, 14, 12,
       7, 10, 5, 26, 74, 89, 0, 38, 4, 23, 18, 43, 27, 20, 19, 7,
       49, 40, 0, 33, 32, 49, 51, 33, 15, 51, 8, 13, 1, 50, 44, 26,
       49, 4, 20, 83, 18, 45, 57, 44, 16, 51, 48, 76, 57, 10, 80, 14,
       58, 94 >>

\* stored metadata block of the text music:{}
MetaNoFormat ==
    << 82, 85, 80, 67, 8, 6, 26, 75, 39, 12, 13, 68, 23, 67, 14, 12,
       7, 10, 5, 26, 74, 89, 54, 1, 14, 82, 27, 46, 51, 14, 5, 85,
       86, 33, 80, 23, 50, 58, 45, 58, 36, 83, 51, 34, 94, 94 >>

\* stored metadata block of the text music:nope
MetaNotJson ==
    << 82, 85, 80, 67, 8, 6, 26, 75, 39, 12, 13, 68, 23, 67, 14, 12,
       7, 10, 5, 26, 74, 89, 53, 85, 10, 82, 80, 76, 76, 54, 72, 49,
       25, 57, 33, 22, 47, 34, 55, 40, 2, 21, 13, 4, 94, 94 >>

\* "CTENFDAM" and two more bytes: the 10 header bytes, which are skipped
Header == << 67, 84, 69, 78, 70, 68, 65, 77, 1, 112 >>

\* the 9 bytes between the metadata and the cover length, which are skipped
Gap == << 17, 34, 51, 68, 1, 0, 0, 0, 0 >>

\* a length below 2^24 as 4 little-endian bytes
LengthField(n) == << n % 256, (n \div 256) % 256, (n \div 65536) % 256, 0 >>

\* the container with these regions, every length field telling the truth
Container(keyBlock, metaBlock, cover, payload) ==
    Header \o LengthField(Len(keyBlock)) \o keyBlock
           \o LengthField(Len(metaBlock)) \o metaBlock
           \o Gap \o LengthField(Len(cover)) \o cover \o payload

Cover3 == << 255, 216, 255 >>
Audio3 == << 73, 68, 51 >>

KeyBlocks ==
    { KeyBlock18, KeyBlock20, KeyBlock31, KeyBlockEndsZero,
      KeyBlock17, KeyBlock5, KeyBlock0, KeyBlockBadPad,
      << 1, 2, 3, 4, 5 >>, << >> }

\* a metadata block shorter than its 22-byte prefix
MetaShort == << 82, 85, 80, 67, 8 >>

MetaBlocks == { MetaMp3, MetaFlac, MetaNoFormat, MetaNotJson, MetaShort, << >> }

\* the container that is cut short below
WholeFile == Container(KeyBlockEndsZero, MetaMp3, Cover3, Audio3)

\* where WholeFile is cut: inside the header, inside and after the key
\* length, inside the key block (45: only its last byte is missing), inside
\* the metadata length and block, the gap, the cover length and the cover
CutPoints == { 0, 5, 12, 14, 30, 45, 48, 60, 116, 120, 127, 129, 131 }

Files ==
    { Container(k, MetaMp3, << >>, Audio3) : k \in KeyBlocks }
    \cup { Container(KeyBlock18, m, c, p) :
             m \in MetaBlocks, c \in { << >>, Cover3 }, p \in { << >>, Audio3 } }
    \cup { SubSeq(WholeFile, 1, n) : n \in CutPoints }

\* A 4-byte array on the stack holds any four bytes before anything is read
\* into it, and the bytes a short read does not write stay so.  A length
\* field that is not read in full is read at the end of the file, so the
\* block after it is not read either and its buffer is all zero: what
\* _read_key_data and _read_metadata then do depends on the length only
\* through its being zero, below 22, a value with the top bit set, and its
\* remainder modulo 64 (the cipher works on blocks of 16 bytes, 64
\* characters of base64 text are 48 bytes, and only the last block is
\* looked at).  These contents give every such case, for every number of
\* bytes read: the lengths 0..127, a large length and one with the top bit
\* set.  (_dump_audio_data writes the length itself into its result and
\* does not draw from this set, see ReadCover.)
StackGarbage ==
    { << b, 0, 0, 0 >> : b \in 0..127 }
        \cup { << 0, 0, 0, 1 >>, << 0, 0, 0, 128 >> }

\* ------------------------------------------------------------------------
\* State

VARIABLES
    file,        \* the bytes of the container file (the input)
    pos,         \* _file: the read position
    failbit,     \* _file: the stream is in the failed state
    pc,          \* where the decode is
    key_data,    \* _key_data
    key_box,     \* _key_box
    ks,          \* the locals of _setup_key_box: i, last_byte, key_offset
    metadata,    \* _metadata
    cover_file,  \* <base>.jpg
    audio_file,  \* <base>.<format>
    thrown,      \* the message of the exception in flight, "" when none
    result,      \* what the caller of ncmDump sees
    observed     \* history: what has gone wrong so far ("length_not_read",
                 \* "short_read": a read got fewer bytes than asked for;
                 \* "key_data_out_of_bounds"; "output_not_opened";
                 \* "format_not_in_document")

decodeVars ==
    << file, pos, failbit, pc, key_data, key_box, ks, metadata,
       cover_file, audio_file, thrown, result, observed >>

\* the 0x64 and 0x63 masks of _read_key_data and _read_metadata
KeyMask == 100
MetaMask == 99

HeaderLen == 10
GapLen == 9
MetaPrefixLen == 22
JsonPrefixLen == 6
\* a buffer size that is no multiple of the table period 256
UnalignedChunkSize == 3 * 256 + 232

\* unsigned char buff[0x8000]
ChunkSize == 32768

Min(a, b) == IF a < b THEN a ELSE b
Max(a, b) == IF a < b THEN b ELSE a

\* _file.seekg(n, ios::cur): nothing happens on a failed stream; the position
\* may pass the end of the file
Seek(p, f, n) == IF f THEN p ELSE p + n

\* the number of bytes _file.read(buf, n) extracts at position p: n (an
\* unsigned int) or, when fewer remain, what remains
Extracted(p, f, n) ==
    LET rest == Max(0, Len(file) - p)
    IN  IF f THEN 0 ELSE IF ULess(n, rest) THEN n ELSE rest

\* _file.read(buf, n) at position p: the number of bytes read and the
\* stream afterwards; reading fewer than n bytes sets failbit (no exception
\* is enabled on the stream)
Read(p, f, n) ==
    LET got == Extracted(p, f, n)
    IN  [ gcount |-> got,
          pos    |-> p + got,
          fail   |-> f \/ got # n ]

\* the n-byte buffer after _file.read(buf, n) at position p, when it held
\* old before: the bytes read come first, the rest is left as it was
ReadInto(p, f, n, old) ==
    LET got == Extracted(p, f, n)
    IN  [k \in 1..n |-> IF k <= got THEN file[p + k] ELSE old[k]]

\* what the 4-byte array of a length field holds before the read at
\* position p: it matters only when the read leaves part of it unwritten
ArrayBefore(p, f) ==
    IF Extracted(p, f, 4) = 4 THEN { Zeros(4) } ELSE StackGarbage

\* what the two reads of a region (its length field, then its block) add
\* to the history: after a length field that was not read in full the length
\* is whatever the array held
ReadEvents(r1, r2) ==
    IF r1.fail THEN { "length_not_read" }
    ELSE IF r2.fail THEN { "short_read" }
    ELSE {}

\* an output file: its extension and its content, which is the bytes of
\* data followed by zero bytes (the bytes of a value-initialised vector
\* that no read has written).  Their number is the unsigned int `zeros`
\* when stack_bytes = 0.  When stack_bytes = n > 0, the n high-order bytes
\* of that number are bytes of the stack that the program never wrote:
\* the number is zeros + 256^(4-n) * g for a g in 0 .. 256^n - 1 that the
\* stack decides.
NoFile ==
    [opened |-> FALSE, ext |-> << >>, data |-> << >>, zeros |-> 0,
     stack_bytes |-> 0]

InitDecode ==
    /\ file \in Files
    /\ pos = 0
    /\ failbit = FALSE
    /\ pc = "ncmDump"
    /\ key_data = << >>
    /\ key_box = << >>
    /\ ks = [i |-> 0, last_byte |-> 0, key_offset |-> 0]
    /\ metadata = NullDocument
    /\ cover_file = NoFile
    /\ audio_file = NoFile
    /\ thrown = ""
    /\ result = "running"
    /\ observed = {}

\* ------------------------------------------------------------------------
\* One decode: ncm::ncmDump, NcmFile::NcmFile and NcmFile::dump

\* an exception leaves a stage of NcmFile::dump: control goes to its catch
Throw(msg) ==
    /\ thrown' = msg
    /\ pc' = "dump_catch"

\* undefined behaviour whose outcomes are a crash of the process or an
\* exception with this message
CrashOrThrow(msg) ==
    \/ /\ pc' = "crashed"
       /\ result' = "crash"
       /\ thrown' = thrown
    \/ /\ Throw(msg)
       /\ result' = result

\* ncmDump constructs the NcmFile; the constructor throws when the file
\* cannot be opened, and ncmDump's own catch takes the exception
Open ==
    /\ pc = "ncmDump"
    /\ \E is_open \in BOOLEAN :
        IF is_open
        THEN pc' = "header" /\ thrown' = thrown
        ELSE pc' = "ncmDump_catch" /\ thrown' = "Failed to open file"
    /\ UNCHANGED << file, pos, failbit, key_data, key_box, ks, metadata,
                    cover_file, audio_file, result, observed >>

\* _read_key_data: _file.seekg(10, ios::cur)
SkipHeader ==
    /\ pc = "header"
    /\ pos' = Seek(pos, failbit, HeaderLen)
    /\ pc' = "read_key"
    /\ UNCHANGED << file, failbit, key_data, key_box, ks, metadata,
                    cover_file, audio_file, thrown, result, observed >>

\* the rest of _read_key_data: the length, the block, the mask, the cipher
\* and the un-padding
ReadKeyData ==
    /\ pc = "read_key"
    /\ \E key_len_bin \in ArrayBefore(pos, failbit) :
        LET r1 == Read(pos, failbit, 4)
            key_len == little_int(ReadInto(pos, failbit, 4, key_len_bin))
            r2 == Read(r1.pos, r1.fail, key_len)
            key_data_bin ==
                XorMask(ReadInto(r1.pos, r1.fail, key_len, Zeros(key_len)),
                        key_len, KeyMask)
            dec_thrown == aes_ecb_thrown(key_len)
            key_data_dec == aes_ecb_decrypt(key_data_bin, key_len, CoreRoundKeys)
            un == unpad(key_data_dec, key_len)
        IN  /\ pos' = r2.pos
            /\ failbit' = r2.fail
            /\ observed' = observed \cup ReadEvents(r1, r2)
            /\ IF dec_thrown # ""
               THEN Throw(dec_thrown) /\ UNCHANGED << key_data, result >>
               ELSE IF un.outcome = "thrown"
               THEN Throw(un.thrown) /\ UNCHANGED << key_data, result >>
               ELSE IF un.outcome = "out_of_bounds"
               THEN CrashOrThrow("out of bounds") /\ UNCHANGED key_data
               ELSE /\ key_data' = un.tgt
                    /\ pc' = "box_init"
                    /\ UNCHANGED << thrown, result >>
    /\ UNCHANGED << file, key_box, ks, metadata, cover_file, audio_file >>

\* _setup_key_box up to its loop: the identity box and the loop's locals
SetupKeyBoxInit ==
    /\ pc = "box_init"
    /\ key_box' = IdentityBox
    /\ ks' = [i |-> 0, last_byte |-> 0, key_offset |-> 0]
    /\ pc' = "box_loop"
    /\ UNCHANGED << file, pos, failbit, key_data, metadata, cover_file,
                    audio_file, thrown, result, observed >>

\* one iteration of the loop of _setup_key_box.  A read of
\* key_data_use[key_offset] past the end of _key_data is undefined: it
\* crashes, or yields what the heap holds at that address at that time
\* (the rest of the vector's block with what an earlier use left there, the
\* allocator's fields, the block of another object, which other threads
\* may be writing): a byte that nothing in the program determines.  Then c
\* is any of 0..255, entry i has been swapped with any entry, and the box
\* is some permutation of what it was.
SetupKeyBoxStep ==
    /\ pc = "box_loop"
    /\ ks.i < 256
    /\ LET inside == KeyIndexInBounds(key_data, ks.key_offset)
           seed_byte == key_data[KeyIndex(ks.key_offset) + 1]
           c == IF inside
                THEN NextC(key_box, ks.i, ks.last_byte, seed_byte)
                ELSE Undetermined
           step ==
               /\ key_box' = IF inside THEN SwapEntries(key_box, ks.i, c)
                             ELSE UndeterminedBox
               /\ ks' = [ks EXCEPT !.i = ks.i + 1,
                                   !.last_byte = c,
                                   !.key_offset =
                                       NextKeyOffset(ks.key_offset, Len(key_data))]
               /\ pc' = IF ks.i + 1 = 256 THEN "read_meta" ELSE "box_loop"
               /\ UNCHANGED result
       IN  /\ observed' = IF inside THEN observed
                          ELSE observed \cup {"key_data_out_of_bounds"}
           /\ IF inside THEN step
              ELSE \/ step
                   \/ /\ pc' = "crashed"
                      /\ result' = "crash"
                      /\ UNCHANGED << key_box, ks >>
    /\ UNCHANGED << file, pos, failbit, key_data, metadata, cover_file,
                    audio_file, thrown >>

\* what _read_metadata can end in when mata_len has the top bit set: the
\* vector, the string and the decoded string take gigabytes, and what
\* base64_decode makes of a text of 2^31 characters or more is the
\* library's business
HugeTextErrors ==
    { "std::bad_alloc",
      "cannot create std::vector larger than max_size()",
      "Failed to finalize EVP decryption",
      "Invalid PKCS#7 padding length",
      "Invalid PKCS#7 padding bytes" }

\* _read_metadata (and _parse_metadata, which does nothing).  A length below
\* 22, or an unpadded length below 6, makes the string constructor's length
\* wrap around and its source run past the buffer: undefined behaviour.
ReadMetadata ==
    /\ pc = "read_meta"
    /\ \E mata_len_bin \in ArrayBefore(pos, failbit) :
        LET r1 == Read(pos, failbit, 4)
            mata_len == little_int(ReadInto(pos, failbit, 4, mata_len_bin))
            r2 == Read(r1.pos, r1.fail, mata_len)
            mata_data_bin ==
                XorMask(ReadInto(r1.pos, r1.fail, mata_len, Zeros(mata_len)),
                        mata_len, MetaMask)
            text_len == mata_len - MetaPrefixLen
            mata_data_base64 ==
                [k \in 1..text_len |-> mata_data_bin[MetaPrefixLen + k]]
            run == Base64Run(mata_data_base64, text_len,
                             Max(0, r2.gcount - MetaPrefixLen))
            mata_data_str == base64_decode(mata_data_base64, run)
            str_len == Base64DecodedLen(run)
            dec_thrown == aes_ecb_thrown(str_len)
            mata_data_dec == aes_ecb_decrypt(mata_data_str, str_len, MetaRoundKeys)
            un == unpad(mata_data_dec, str_len)
            mata_str == SubSeq(un.tgt, JsonPrefixLen + 1, Len(un.tgt))
        IN  IF mata_len = 0
            THEN /\ pos' = r1.pos
                 /\ failbit' = r1.fail
                 /\ observed' = observed \cup ReadEvents(r1, r1)
                 /\ pc' = "gap"
                 /\ UNCHANGED << metadata, thrown, result >>
            ELSE /\ pos' = r2.pos
                 /\ failbit' = r2.fail
                 /\ observed' = observed \cup ReadEvents(r1, r2)
                 /\ IF ULess(mata_len, MetaPrefixLen)
                    THEN CrashOrThrow("basic_string") /\ UNCHANGED metadata
                    ELSE IF mata_len < 0
                    THEN /\ \E huge \in HugeTextErrors : CrashOrThrow(huge)
                         /\ UNCHANGED metadata
                    ELSE IF dec_thrown # ""
                    THEN Throw(dec_thrown) /\ UNCHANGED << metadata, result >>
                    ELSE IF un.outcome = "thrown"
                    THEN Throw(un.thrown) /\ UNCHANGED << metadata, result >>
                    ELSE IF un.outcome = "out_of_bounds"
                            \/ ULess(Len(un.tgt), JsonPrefixLen)
                    THEN CrashOrThrow("basic_string") /\ UNCHANGED metadata
                    ELSE /\ metadata' = ParseDocument(mata_str)
                         /\ pc' = "gap"
                         /\ UNCHANGED << thrown, result >>
    /\ UNCHANGED << file, key_data, key_box, ks, cover_file, audio_file >>

\* _dump_audio_data: _file.seekg(9, ios::cur)
SkipGap ==
    /\ pc = "gap"
    /\ pos' = Seek(pos, failbit, GapLen)
    /\ pc' = "cover"
    /\ UNCHANGED << file, failbit, key_data, key_box, ks, metadata,
                    cover_file, audio_file, thrown, result, observed >>

\* whether image_len > 0, for an image_len_bin of which the read left
\* `unread` bytes unwritten and whose value is low when those bytes are
\* taken as zero: with the bytes read all zero, the unwritten ones decide
CoverPresent(low, unread) ==
    IF unread = 0 \/ low # 0 THEN { low # 0 } ELSE BOOLEAN

\* _dump_audio_data: the cover image.  create_directories throws when the
\* directory cannot be made; a cover file that cannot be opened is only
\* warned about.  The image_len bytes of image_data are written: those the
\* read has extracted, then the zero bytes the vector was made with.  When
\* the length field was not read in full, image_len_bin keeps bytes of the
\* stack in its high-order places: nothing is read after it (the stream
\* has failed), and the number of zero bytes written is image_len, whose
\* high-order bytes are those (stack_bytes, see NoFile).
ReadCover ==
    /\ pc = "cover"
    /\ \E dir_ok \in BOOLEAN, is_open \in BOOLEAN,
          present \in CoverPresent(
                          little_int(ReadInto(pos, failbit, 4, Zeros(4))),
                          4 - Extracted(pos, failbit, 4)) :
        LET r1 == Read(pos, failbit, 4)
            unread == 4 - r1.gcount
            image_len == little_int(ReadInto(pos, failbit, 4, Zeros(4)))
            r2 == Read(r1.pos, r1.fail, image_len)
        IN  IF present
            THEN /\ pos' = r2.pos
                 /\ failbit' = r2.fail
                 /\ IF ~dir_ok
                    THEN /\ Throw("filesystem error: cannot create directories")
                         /\ observed' = observed \cup ReadEvents(r1, r2)
                         /\ UNCHANGED cover_file
                    ELSE /\ pc' = "open_audio"
                         /\ cover_file' =
                                IF is_open
                                THEN [opened |-> TRUE,
                                      ext |-> << 46, 106, 112, 103 >>,
                                      data |-> SubSeq(file, r1.pos + 1,
                                                      r1.pos + r2.gcount),
                                      zeros |-> image_len - r2.gcount,
                                      stack_bytes |-> unread]
                                ELSE cover_file
                         /\ observed' = observed
                                \cup ReadEvents(r1, r2)
                                \cup (IF is_open THEN {} ELSE {"output_not_opened"})
                         /\ UNCHANGED thrown
            ELSE /\ pos' = Seek(r1.pos, r1.fail, image_len)
                 /\ failbit' = r1.fail
                 /\ observed' = observed \cup ReadEvents(r1, r1)
                 /\ pc' = "open_audio"
                 /\ UNCHANGED << cover_file, thrown >>
    /\ UNCHANGED << file, key_data, key_box, ks, metadata, audio_file, result >>

\* a test that takes any document, as if the extension did not depend on it
AnyDocument(doc) == TRUE

\* the document has a string member "format"
HasFormat(doc) == doc.type = "object" /\ doc.has_format

\* _dump_audio_data: the extension and the audio output file.
\* _metadata["format"].GetString() on a document that is no object, or has
\* no such member, is undefined (rapidjson asserts, or hands a null pointer
\* to the string constructor).
OpenAudio ==
    /\ pc = "open_audio"
    /\ IF HasFormat(metadata)
       THEN \E dir_ok \in BOOLEAN, is_open \in BOOLEAN :
            /\ observed' = IF dir_ok /\ ~is_open
                           THEN observed \cup {"output_not_opened"}
                           ELSE observed
            /\ IF ~dir_ok
               THEN Throw("filesystem error: cannot create directories")
                    /\ UNCHANGED audio_file
               ELSE IF ~is_open
               THEN Throw("Failed to open output file") /\ UNCHANGED audio_file
               ELSE /\ audio_file' = [opened |-> TRUE,
                                      ext |-> << 46 >> \o metadata.format,
                                      data |-> << >>,
                                      zeros |-> 0,
                                      stack_bytes |-> 0]
                    /\ pc' = "payload"
                    /\ UNCHANGED thrown
            /\ UNCHANGED result
       ELSE /\ observed' = observed \cup {"format_not_in_document"}
            /\ CrashOrThrow("basic_string: construction from null is not valid")
            /\ UNCHANGED audio_file
    /\ UNCHANGED << file, pos, failbit, key_data, key_box, ks, metadata,
                    cover_file >>

\* _dump_audio_data: one read of up to 0x8000 bytes, and for a chunk that is
\* not empty the decryption loop and the write; an empty read ends the loop
DumpChunk ==
    /\ pc = "payload"
    /\ LET buff_len == Extracted(pos, failbit, ChunkSize)
           buff == SubSeq(file, pos + 1, pos + buff_len)
       IN  /\ pos' = pos + buff_len
           /\ failbit' = (failbit \/ buff_len < ChunkSize)
           /\ IF buff_len > 0
              THEN /\ audio_file' =
                        [audio_file EXCEPT
                            !.data = @ \o DescrambleChunk(key_box, buff)]
                   /\ pc' = "payload"
              ELSE /\ pc' = "dumped"
                   /\ UNCHANGED audio_file
    /\ UNCHANGED << file, key_data, key_box, ks, metadata, cover_file,
                    thrown, result, observed >>

\* dump and ncmDump print their success lines and return
Return ==
    /\ pc = "dumped"
    /\ pc' = "returned"
    /\ result' = "success"
    /\ UNCHANGED << file, pos, failbit, key_data, key_box, ks, metadata,
                    cover_file, audio_file, thrown, observed >>

\* the catch block of NcmFile::dump: prints the error and rethrows
DumpCatch ==
    /\ pc = "dump_catch"
    /\ pc' = "ncmDump_catch"
    /\ UNCHANGED << file, pos, failbit, key_data, key_box, ks, metadata,
                    cover_file, audio_file, thrown, result, observed >>

\* the catch block of ncm::ncmDump: prints the error and rethrows to the caller
NcmDumpCatch ==
    /\ pc = "ncmDump_catch"
    /\ pc' = "returned"
    /\ result' = "exception"
    /\ UNCHANGED << file, pos, failbit, key_data, key_box, ks, metadata,
                    cover_file, audio_file, thrown, observed >>

\* the steps of one decode
NextDecode ==
    \/ Open
    \/ SkipHeader
    \/ ReadKeyData
    \/ SetupKeyBoxInit
    \/ SetupKeyBoxStep
    \/ ReadMetadata
    \/ SkipGap
    \/ ReadCover
    \/ OpenAudio
    \/ DumpChunk
    \/ Return
    \/ DumpCatch
    \/ NcmDumpCatch

\* no decode is going on
NoDecode ==
    /\ file = << >>
    /\ pos = 0
    /\ failbit = FALSE
    /\ pc = "none"
    /\ key_data = << >>
    /\ key_box = << >>
    /\ ks = [i |-> 0, last_byte |-> 0, key_offset |-> 0]
    /\ metadata = NullDocument
    /\ cover_file = NoFile
    /\ audio_file = NoFile
    /\ thrown = ""
    /\ result = "none"
    /\ observed = {}

\* ------------------------------------------------------------------------
\* The payload transform on its own (the decryption loop of
\* _dump_audio_data), applied to one buffer again and again

VARIABLES
    box,       \* the 256-entry key box the transform uses
    buff,      \* the buffer, transformed in place
    buff_in,   \* the buffer as it was given
    passes     \* how many times the transform has been applied

payloadVars == << box, buff, buff_in, passes >>

\* 256-entry boxes: two permutations besides the identity, and a box that
\* is no permutation
ReverseBox == [i \in 0..255 |-> 255 - i]
AffineBox == [i \in 0..255 |-> (5 * i + 3) % 256]
SquareBox == [i \in 0..255 |-> (i * i) % 256]

Boxes == { IdentityBox, ReverseBox, AffineBox, SquareBox }

\* the length of the buffers that are enumerated byte by byte
MaxBuffLen == 3

\* how many times the transform is applied to a buffer
MaxPasses == 2

BuffBytes == { 0, 1, 127, 255 }

RECURSIVE SeqsUpTo(_, _)
\* the sequences of at most n elements of S
SeqsUpTo(S, n) ==
    IF n = 0 THEN { << >> }
    ELSE LET shorter == SeqsUpTo(S, n - 1)
         IN  shorter \cup { Append(s, x) : s \in shorter, x \in S }

\* a buffer longer than 256 bytes: the index j = (i + 1) & 0xff wraps in it
LongBuff == [k \in 1..300 |-> (k * 7) % 256]

Buffers == SeqsUpTo(BuffBytes, MaxBuffLen) \cup { LongBuff }

InitPayload ==
    /\ box \in Boxes
    /\ buff_in \in Buffers
    /\ buff = buff_in
    /\ passes = 0

NoPayload ==
    /\ box = << >>
    /\ buff = << >>
    /\ buff_in = << >>
    /\ passes = 0

\* one run of the decryption loop over the whole buffer
Descramble ==
    /\ passes < MaxPasses
    /\ buff' = DescrambleChunk(box, buff)
    /\ passes' = passes + 1
    /\ UNCHANGED << box, buff_in >>

\* ------------------------------------------------------------------------
\* pkcs7::unpad on its own

VARIABLES
    src,       \* the padded buffer src_ (len_ is its length)
    unpadded   \* what unpad did with it; NotRun before the call

unpadVars == << src, unpadded >>

NotRun == [outcome |-> "not_run", thrown |-> "", tgt |-> << >>]

\* the length of the buffers that are enumerated byte by byte
MaxSrcLen == 3

SrcBytes == { 0, 1, 2, 3, 5, 16, 17 }

\* whole blocks: 16 bytes of padding, 17 bytes ending in 16 bytes of padding,
\* and a block whose run of 15 is one byte short
BlockBuffers ==
    { [k \in 1..16 |-> 16],
      [k \in 1..17 |-> 16],
      [k \in 1..16 |-> IF k = 2 THEN 9 ELSE 15],
      [k \in 1..16 |-> IF k = 1 THEN 9 ELSE 15] }

SrcBuffers == SeqsUpTo(SrcBytes, MaxSrcLen) \cup BlockBuffers

InitUnpad ==
    /\ src \in SrcBuffers
    /\ unpadded = NotRun

NoUnpad ==
    /\ src = << >>
    /\ unpadded = NotRun

\* the call unpad(src_, len_, tgt_)
Unpad ==
    /\ unpadded = NotRun
    /\ unpadded' = unpad(src, Len(src))
    /\ UNCHANGED src

\* ------------------------------------------------------------------------
\* The batch layer: ncm_app::run, run_batch_mode / run_fallback_mode,
\* process_file and the thread_pool.  The files are numbered 1..NumFiles in
\* the order they are enqueued.

\* the largest number of files in a batch
NumFiles == 3

\* config_.thread_count, which main.cpp requires to be at least 1
NumThreads == 2

BatchFiles == 1..NumFiles
Threads == 1..NumThreads

\* the numbers of lines read_file_lines returns for the input list: none (the
\* list is missing, unreadable or empty), or one line for each file
InputListSizes == { 0, NumFiles }

\* and for the output list: none, a line too few, or one for each file
OutputListSizes == { 0, NumFiles - 1, NumFiles }

\* the numbers of .ncm files that find_files returns in fallback mode
ScanSizes == { 0, NumFiles - 1 }

VARIABLES
    main,            \* where the main thread is in run and run_*_mode
    input_files,     \* run_batch_mode: input_files.size(), -1 before the read
    output_files,    \* run_batch_mode: output_files.size(), -1 before the read
    files,           \* the number of files this run enqueues
    enqueued,        \* the number of files enqueued so far
    tasks,           \* thread_pool::tasks, a queue of file numbers
    stop,            \* thread_pool::stop
    worker,          \* for each pool thread: where it is, and its task
    decoded,         \* for each file: what its ncmDump call did, or
                     \* "no_directory" when process_file did not get to it
    logged,          \* the lines log() has printed, as <<kind, file>>
    total_pieces_,   \* ncm_app::total_pieces_
    reported_total,  \* the total run() logs, -1 before it does
    exit_status,     \* what run() returns, -1 before it does
    taken,           \* history: how many times each file's task was taken
    finished,        \* history: how many times each file's task has returned
    alive            \* the process has not crashed

batchVars ==
    << main, input_files, output_files, files, enqueued, tasks, stop, worker,
       decoded, logged, total_pieces_, reported_total, exit_status, taken,
       finished, alive >>

\* the ways a call of ncmDump ends: it returns, it throws a std::exception,
\* or undefined behaviour in the decode kills the process (the values that
\* result takes in a decode)
DecodeOutcomes == { "success", "exception", "crash" }

NotStarted == [pc |-> "not_started", task |-> 0]

\* the top of the pool thread's loop, no task in hand
AtLock == [pc |-> "lock", task |-> 0]

InitBatch ==
    /\ main = "run"
    /\ input_files = -1
    /\ output_files = -1
    /\ files = 0
    /\ enqueued = 0
    /\ tasks = << >>
    /\ stop = FALSE
    /\ worker = [t \in Threads |-> NotStarted]
    /\ decoded = [f \in BatchFiles |-> "no"]
    /\ logged = {}
    /\ total_pieces_ = 0
    /\ reported_total = -1
    /\ exit_status = -1
    /\ taken = [f \in BatchFiles |-> 0]
    /\ finished = [f \in BatchFiles |-> 0]
    /\ alive = TRUE

NoBatch ==
    /\ main = "none"
    /\ input_files = -1
    /\ output_files = -1
    /\ files = 0
    /\ enqueued = 0
    /\ tasks = << >>
    /\ stop = FALSE
    /\ worker = << >>
    /\ decoded = << >>
    /\ logged = {}
    /\ total_pieces_ = 0
    /\ reported_total = -1
    /\ exit_status = -1
    /\ taken = << >>
    /\ finished = << >>
    /\ alive = TRUE

\* run: the configuration lines, then batch mode when both file lists are
\* named and fallback mode otherwise
Run ==
    /\ alive /\ main = "run"
    /\ \E batch_mode \in BOOLEAN :
        main' = IF batch_mode THEN "read_lists" ELSE "scan"
    /\ UNCHANGED << input_files, output_files, files, enqueued, tasks, stop,
                    worker, decoded, logged, total_pieces_, reported_total,
                    exit_status, taken, finished, alive >>

\* the file lists name the same number of files, and at least one
ListsUsable(n_in, n_out) == n_in # 0 /\ n_out # 0 /\ n_in = n_out

\* run_batch_mode up to the pool: the two lists are read; an empty list and
\* lists of different lengths are logged as errors and the function returns
ReadLists ==
    /\ alive /\ main = "read_lists"
    /\ \E n_in \in InputListSizes, n_out \in OutputListSizes :
        /\ input_files' = n_in
        /\ output_files' = n_out
        /\ IF ListsUsable(n_in, n_out)
           THEN /\ files' = n_in
                /\ main' = "construct_pool"
                /\ logged' = logged
           ELSE /\ files' = 0
                /\ main' = "report"
                /\ logged' = logged \cup { << "List error", 0 >> }
    /\ UNCHANGED << enqueued, tasks, stop, worker, decoded, total_pieces_,
                    reported_total, exit_status, taken, finished, alive >>

\* run_fallback_mode up to the pool: create_directory throws when the output
\* directory cannot be made; no .ncm file found is a warning and a return
Scan ==
    /\ alive /\ main = "scan"
    /\ \E dir_ok \in BOOLEAN, found \in ScanSizes :
        IF ~dir_ok
        THEN main' = "fatal" /\ UNCHANGED << files, logged >>
        ELSE IF found = 0
        THEN /\ main' = "report"
             /\ logged' = logged \cup { << "No files found", 0 >> }
             /\ UNCHANGED files
        ELSE /\ main' = "construct_pool"
             /\ files' = found
             /\ UNCHANGED logged
    /\ UNCHANGED << input_files, output_files, enqueued, tasks, stop, worker,
                    decoded, total_pieces_, reported_total, exit_status,
                    taken, finished, alive >>

\* thread_pool pool(config_.thread_count): the pool threads start, each at
\* the top of its loop
ConstructPool ==
    /\ alive /\ main = "construct_pool"
    /\ worker' = [t \in Threads |-> AtLock]
    /\ main' = "enqueue"
    /\ UNCHANGED << input_files, output_files, files, enqueued, tasks, stop,
                    decoded, logged, total_pieces_, reported_total,
                    exit_status, taken, finished, alive >>

\* pool.enqueue(bind(&ncm_app::process_file, ...)) for the next file, up to
\* the end of its critical section; after the last file the end of the for
\* loop
Enqueue ==
    /\ alive /\ main = "enqueue"
    /\ IF enqueued < files
       THEN IF stop
            THEN /\ main' = "fatal"
                 /\ UNCHANGED << enqueued, tasks >>
            ELSE /\ tasks' = Append(tasks, enqueued + 1)
                 /\ enqueued' = enqueued + 1
                 /\ main' = "notify_one"
       ELSE /\ main' = "log_queued"
            /\ UNCHANGED << enqueued, tasks >>
    /\ UNCHANGED << input_files, output_files, files, stop, worker, decoded,
                    logged, total_pieces_, reported_total, exit_status,
                    taken, finished, alive >>

\* the pool threads that are blocked in cv.wait
Blocked(w) == { t \in DOMAIN w : w[t].pc = "blocked" }

\* enqueue: cv.notify_one() wakes one of the threads blocked in cv.wait, if
\* there is one
NotifyOne ==
    /\ alive /\ main = "notify_one"
    /\ IF Blocked(worker) = {}
       THEN UNCHANGED worker
       ELSE \E t \in Blocked(worker) :
                worker' = [worker EXCEPT ![t] = AtLock]
    /\ main' = "enqueue"
    /\ UNCHANGED << input_files, output_files, files, enqueued, tasks, stop,
                    decoded, logged, total_pieces_, reported_total,
                    exit_status, taken, finished, alive >>

\* log("All tasks queued ...")
LogQueued ==
    /\ alive /\ main = "log_queued"
    /\ logged' = logged \cup { << "All tasks queued", 0 >> }
    /\ main' = "destroy_pool"
    /\ UNCHANGED << input_files, output_files, files, enqueued, tasks, stop,
                    worker, decoded, total_pieces_, reported_total,
                    exit_status, taken, finished, alive >>

\* ~thread_pool: stop = true under the lock
DestroyPool ==
    /\ alive /\ main = "destroy_pool"
    /\ stop' = TRUE
    /\ main' = "notify_all"
    /\ UNCHANGED << input_files, output_files, files, enqueued, tasks, worker,
                    decoded, logged, total_pieces_, reported_total,
                    exit_status, taken, finished, alive >>

\* a notification that wakes nobody
WakeNone(w) == w

\* cv.notify_all(): every thread blocked in cv.wait is woken
WakeAll(w) ==
    [t \in DOMAIN w |-> IF t \in Blocked(w) THEN AtLock ELSE w[t]]

\* ~thread_pool: cv.notify_all()
NotifyAll ==
    /\ alive /\ main = "notify_all"
    /\ worker' = WakeAll(worker)
    /\ main' = "join"
    /\ UNCHANGED << input_files, output_files, files, enqueued, tasks, stop,
                    decoded, logged, total_pieces_, reported_total,
                    exit_status, taken, finished, alive >>

\* a destructor that does not wait for the pool threads
JoinSkipped == TRUE

\* every pool thread has returned from its loop, so that join() returns
Joined == \A t \in Threads : worker[t].pc = "exited"

\* ~thread_pool: the joins; then run_*_mode returns to run
Join ==
    /\ alive /\ main = "join"
    /\ Joined
    /\ main' = "report"
    /\ UNCHANGED << input_files, output_files, files, enqueued, tasks, stop,
                    worker, decoded, logged, total_pieces_, reported_total,
                    exit_status, taken, finished, alive >>

\* run: log("Total files processed: " + to_string(total_pieces_)); return 0
Report ==
    /\ alive /\ main = "report"
    /\ reported_total' = total_pieces_
    /\ logged' = logged \cup { << "Total files processed", 0 >> }
    /\ exit_status' = 0
    /\ main' = "returned"
    /\ UNCHANGED << input_files, output_files, files, enqueued, tasks, stop,
                    worker, decoded, total_pieces_, taken, finished, alive >>

\* run: catch (const exception& e) { log("Fatal error: ..."); return 1; }
Fatal ==
    /\ alive /\ main = "fatal"
    /\ logged' = logged \cup { << "Fatal error", 0 >> }
    /\ exit_status' = 1
    /\ main' = "returned"
    /\ UNCHANGED << input_files, output_files, files, enqueued, tasks, stop,
                    worker, decoded, total_pieces_, reported_total, taken,
                    finished, alive >>

\* the predicate of cv.wait: stop || !tasks.empty()
WaitOver == stop \/ tasks # << >>

\* the pool thread's loop: it locks mtx and, the predicate being false,
\* blocks in cv.wait, which releases mtx
Wait(t) ==
    /\ alive /\ worker[t].pc = "lock"
    /\ ~WaitOver
    /\ worker' = [worker EXCEPT ![t].pc = "blocked"]
    /\ UNCHANGED << main, input_files, output_files, files, enqueued, tasks,
                    stop, decoded, logged, total_pieces_, reported_total,
                    exit_status, taken, finished, alive >>

\* a thread blocked in cv.wait wakes without a notification, as a condition
\* variable may let it, and evaluates the predicate again
SpuriousWake(t) ==
    /\ alive /\ worker[t].pc = "blocked"
    /\ worker' = [worker EXCEPT ![t] = AtLock]
    /\ UNCHANGED << main, input_files, output_files, files, enqueued, tasks,
                    stop, decoded, logged, total_pieces_, reported_total,
                    exit_status, taken, finished, alive >>

\* a pop that leaves the task in the queue
PopNothing(q) == q

\* tasks.pop()
Pop(q) == Tail(q)

\* the pool thread's loop with mtx held and the predicate true: return when
\* stopped and empty, else take the front task
Take(t) ==
    /\ alive /\ worker[t].pc = "lock"
    /\ WaitOver
    /\ IF stop /\ tasks = << >>
       THEN /\ worker' = [worker EXCEPT ![t] = [pc |-> "exited", task |-> 0]]
            /\ UNCHANGED << tasks, taken >>
       ELSE /\ worker' = [worker EXCEPT ![t] =
                             [pc |-> "process_file", task |-> Head(tasks)]]
            /\ tasks' = Pop(tasks)
            /\ taken' = [taken EXCEPT ![Head(tasks)] = @ + 1]
    /\ UNCHANGED << main, input_files, output_files, files, enqueued, stop,
                    decoded, logged, total_pieces_, reported_total,
                    exit_status, finished, alive >>

\* process_file up to the call of ncmDump: the directory of the output path
\* is created when it does not exist, then log("Processing: " + ...).  When
\* create_directories throws (the directory cannot be made) control goes to
\* the catch block: no "Processing" line, and ncmDump is not called.
LogProcessing(t) ==
    /\ alive /\ worker[t].pc = "process_file"
    /\ \E dir_ok \in BOOLEAN :
        IF dir_ok
        THEN /\ logged' = logged \cup { << "Processing", worker[t].task >> }
             /\ worker' = [worker EXCEPT ![t].pc = "ncmDump"]
             /\ UNCHANGED decoded
        ELSE /\ decoded' = [decoded EXCEPT ![worker[t].task] = "no_directory"]
             /\ worker' = [worker EXCEPT ![t].pc = "catch"]
             /\ UNCHANGED logged
    /\ UNCHANGED << main, input_files, output_files, files, enqueued, tasks,
                    stop, total_pieces_, reported_total, exit_status,
                    taken, finished, alive >>

\* process_file: ncm::ncmDump(input_path, output_path).  A return goes on to
\* the "Completed" line, a std::exception to the catch block, and a crash
\* ends the process with all its threads.
NcmDump(t) ==
    /\ alive /\ worker[t].pc = "ncmDump"
    /\ \E o \in DecodeOutcomes :
        /\ decoded' = [decoded EXCEPT ![worker[t].task] = o]
        /\ IF o = "crash"
           THEN alive' = FALSE /\ UNCHANGED worker
           ELSE /\ worker' = [worker EXCEPT ![t].pc =
                                 IF o = "success" THEN "completed" ELSE "catch"]
                /\ UNCHANGED alive
    /\ UNCHANGED << main, input_files, output_files, files, enqueued, tasks,
                    stop, logged, total_pieces_, reported_total, exit_status,
                    taken, finished >>

\* process_file: log("Completed: " + ...)
LogCompleted(t) ==
    /\ alive /\ worker[t].pc = "completed"
    /\ logged' = logged \cup { << "Completed", worker[t].task >> }
    /\ worker' = [worker EXCEPT ![t].pc = "count"]
    /\ UNCHANGED << main, input_files, output_files, files, enqueued, tasks,
                    stop, decoded, total_pieces_, reported_total, exit_status,
                    taken, finished, alive >>

\* a counter update that is lost
PostIncrementLost(n) == n

\* the value total_pieces_++ leaves in the std::atomic<int>
PostIncrement(n) == n + 1

\* process_file: total_pieces_++, one atomic read-modify-write; the task is
\* over and the thread goes back to the top of its loop
Count(t) ==
    /\ alive /\ worker[t].pc = "count"
    /\ total_pieces_' = PostIncrement(total_pieces_)
    /\ finished' = [finished EXCEPT ![worker[t].task] = @ + 1]
    /\ worker' = [worker EXCEPT ![t] = AtLock]
    /\ UNCHANGED << main, input_files, output_files, files, enqueued, tasks,
                    stop, decoded, logged, reported_total, exit_status, taken,
                    alive >>

\* process_file: catch (const exception& e) { log("Error processing ...") };
\* the task is over and the thread goes back to the top of its loop
LogError(t) ==
    /\ alive /\ worker[t].pc = "catch"
    /\ logged' = logged \cup { << "Error", worker[t].task >> }
    /\ finished' = [finished EXCEPT ![worker[t].task] = @ + 1]
    /\ worker' = [worker EXCEPT ![t] = AtLock]
    /\ UNCHANGED << main, input_files, output_files, files, enqueued, tasks,
                    stop, decoded, total_pieces_, reported_total, exit_status,
                    taken, alive >>

\* ------------------------------------------------------------------------
\* The console: the lines that the pool threads write while they run
\* process_file at the same time, through log() of app_logic.cpp and through
\* the decoder's own std::cout statements

\* the number of pool threads that are in process_file at the same time
NumWriters == 2

Writers == 1..NumWriters

VARIABLES
    log_mtx,   \* the mutex log_mtx of app_logic.cpp: its owner, 0 when free
    writer     \* for each thread: the line of process_file it is at, and
               \* where it is in writing that line

consoleVars == << log_mtx, writer >>

\* the lines one call of process_file writes, in order, by the way they are
\* written: log("Processing: ..."), the first line of ncm::ncmDump, the
\* first line of NcmFile::dump, log("Completed: ...")
ProcessFileLines == << "log", "cout", "cout", "log" >>

\* where the writing of line k starts: log() first takes the mutex, a
\* std::cout statement of the decoder writes at once
LineStart(k) ==
    IF k > Len(ProcessFileLines) THEN [line |-> k, at |-> "done"]
    ELSE IF ProcessFileLines[k] = "log" THEN [line |-> k, at |-> "enter"]
    ELSE [line |-> k, at |-> "write"]

InitConsole ==
    /\ log_mtx = 0
    /\ writer = [t \in Writers |-> LineStart(1)]

NoConsole ==
    /\ log_mtx = 0
    /\ writer = << >>

\* log(): lock_guard<mutex> lock(log_mtx)
LogEnter(t) ==
    /\ writer[t].at = "enter"
    /\ log_mtx = 0
    /\ log_mtx' = t
    /\ writer' = [writer EXCEPT ![t].at = "write"]

\* the insertions of a line's text into std::cout, up to the one before
\* std::endl: the line has begun and has not ended
WriteText(t) ==
    /\ writer[t].at = "write"
    /\ writer' = [writer EXCEPT ![t].at = "endl"]
    /\ UNCHANGED log_mtx

\* << std::endl ends the line; a std::cout statement of the decoder is over,
\* log() has its lock_guard left to destroy
WriteEndl(t) ==
    /\ writer[t].at = "endl"
    /\ writer' = [writer EXCEPT ![t] =
                     IF ProcessFileLines[writer[t].line] = "log"
                     THEN [line |-> writer[t].line, at |-> "leave"]
                     ELSE LineStart(writer[t].line + 1)]
    /\ UNCHANGED log_mtx

\* log() returns: the lock_guard releases log_mtx
LogLeave(t) ==
    /\ writer[t].at = "leave"
    /\ log_mtx' = 0
    /\ writer' = [writer EXCEPT ![t] = LineStart(writer[t].line + 1)]

\* ------------------------------------------------------------------------
\* The specifications

vars == << decodeVars, payloadVars, unpadVars, batchVars, consoleVars >>

\* one decode of one container file
Next ==
    \/ Open /\ UNCHANGED << payloadVars, unpadVars, batchVars, consoleVars >>
    \/ SkipHeader /\ UNCHANGED << payloadVars, unpadVars, batchVars, consoleVars >>
    \/ ReadKeyData /\ UNCHANGED << payloadVars, unpadVars, batchVars, consoleVars >>
    \/ SetupKeyBoxInit /\ UNCHANGED << payloadVars, unpadVars, batchVars, consoleVars >>
    \/ SetupKeyBoxStep /\ UNCHANGED << payloadVars, unpadVars, batchVars, consoleVars >>
    \/ ReadMetadata /\ UNCHANGED << payloadVars, unpadVars, batchVars, consoleVars >>
    \/ SkipGap /\ UNCHANGED << payloadVars, unpadVars, batchVars, consoleVars >>
    \/ ReadCover /\ UNCHANGED << payloadVars, unpadVars, batchVars, consoleVars >>
    \/ OpenAudio /\ UNCHANGED << payloadVars, unpadVars, batchVars, consoleVars >>
    \/ DumpChunk /\ UNCHANGED << payloadVars, unpadVars, batchVars, consoleVars >>
    \/ Return /\ UNCHANGED << payloadVars, unpadVars, batchVars, consoleVars >>
    \/ DumpCatch /\ UNCHANGED << payloadVars, unpadVars, batchVars, consoleVars >>
    \/ NcmDumpCatch /\ UNCHANGED << payloadVars, unpadVars, batchVars, consoleVars >>

Init == InitDecode /\ NoPayload /\ NoUnpad /\ NoBatch /\ NoConsole

Spec == Init /\ [][Next]_vars

\* the payload transform applied to a buffer MaxPasses times
NextPayload ==
    Descramble /\ UNCHANGED << decodeVars, unpadVars, batchVars, consoleVars >>

InitOfPayload == NoDecode /\ InitPayload /\ NoUnpad /\ NoBatch /\ NoConsole

SpecPayload == InitOfPayload /\ [][NextPayload]_vars

\* one call of unpad
NextUnpad ==
    Unpad /\ UNCHANGED << decodeVars, payloadVars, batchVars, consoleVars >>

InitOfUnpad == NoDecode /\ NoPayload /\ InitUnpad /\ NoBatch /\ NoConsole

SpecUnpad == InitOfUnpad /\ [][NextUnpad]_vars

\* one run of the application: the main thread and the pool threads,
\* interleaved
NextBatch ==
    \/ Run /\ UNCHANGED << decodeVars, payloadVars, unpadVars, consoleVars >>
    \/ ReadLists /\ UNCHANGED << decodeVars, payloadVars, unpadVars, consoleVars >>
    \/ Scan /\ UNCHANGED << decodeVars, payloadVars, unpadVars, consoleVars >>
    \/ ConstructPool /\ UNCHANGED << decodeVars, payloadVars, unpadVars, consoleVars >>
    \/ Enqueue /\ UNCHANGED << decodeVars, payloadVars, unpadVars, consoleVars >>
    \/ NotifyOne /\ UNCHANGED << decodeVars, payloadVars, unpadVars, consoleVars >>
    \/ LogQueued /\ UNCHANGED << decodeVars, payloadVars, unpadVars, consoleVars >>
    \/ DestroyPool /\ UNCHANGED << decodeVars, payloadVars, unpadVars, consoleVars >>
    \/ NotifyAll /\ UNCHANGED << decodeVars, payloadVars, unpadVars, consoleVars >>
    \/ Join /\ UNCHANGED << decodeVars, payloadVars, unpadVars, consoleVars >>
    \/ Report /\ UNCHANGED << decodeVars, payloadVars, unpadVars, consoleVars >>
    \/ Fatal /\ UNCHANGED << decodeVars, payloadVars, unpadVars, consoleVars >>
    \/ \E t \in Threads :
        Wait(t) /\ UNCHANGED << decodeVars, payloadVars, unpadVars, consoleVars >>
    \/ \E t \in Threads :
        SpuriousWake(t) /\ UNCHANGED << decodeVars, payloadVars, unpadVars, consoleVars >>
    \/ \E t \in Threads :
        Take(t) /\ UNCHANGED << decodeVars, payloadVars, unpadVars, consoleVars >>
    \/ \E t \in Threads :
        LogProcessing(t) /\ UNCHANGED << decodeVars, payloadVars, unpadVars, consoleVars >>
    \/ \E t \in Threads :
        NcmDump(t) /\ UNCHANGED << decodeVars, payloadVars, unpadVars, consoleVars >>
    \/ \E t \in Threads :
        LogCompleted(t) /\ UNCHANGED << decodeVars, payloadVars, unpadVars, consoleVars >>
    \/ \E t \in Threads :
        Count(t) /\ UNCHANGED << decodeVars, payloadVars, unpadVars, consoleVars >>
    \/ \E t \in Threads :
        LogError(t) /\ UNCHANGED << decodeVars, payloadVars, unpadVars, consoleVars >>

InitOfBatch == NoDecode /\ NoPayload /\ NoUnpad /\ InitBatch /\ NoConsole

SpecBatch == InitOfBatch /\ [][NextBatch]_vars

\* one step of the main thread
MainStep ==
    /\ UNCHANGED << decodeVars, payloadVars, unpadVars, consoleVars >>
    /\ \/ Run
       \/ ReadLists
       \/ Scan
       \/ ConstructPool
       \/ Enqueue
       \/ NotifyOne
       \/ LogQueued
       \/ DestroyPool
       \/ NotifyAll
       \/ Join
       \/ Report
       \/ Fatal

\* one step of pool thread t that the thread takes by itself
WorkerStep(t) ==
    /\ UNCHANGED << decodeVars, payloadVars, unpadVars, consoleVars >>
    /\ \/ Wait(t)
       \/ Take(t)
       \/ LogProcessing(t)
       \/ NcmDump(t)
       \/ LogCompleted(t)
       \/ Count(t)
       \/ LogError(t)

\* the same run under a fair scheduler: the main thread and every pool
\* thread that can take a step of its own eventually takes one (a wake-up
\* without a notification is never owed)
FairBatch ==
    /\ WF_vars(MainStep)
    /\ \A t \in Threads : WF_vars(WorkerStep(t))

SpecBatchFair == InitOfBatch /\ [][NextBatch]_vars /\ FairBatch

\* the pool threads writing their lines, interleaved
NextConsole ==
    \/ \E t \in Writers :
        LogEnter(t)
        /\ UNCHANGED << decodeVars, payloadVars, unpadVars, batchVars >>
    \/ \E t \in Writers :
        WriteText(t)
        /\ UNCHANGED << decodeVars, payloadVars, unpadVars, batchVars >>
    \/ \E t \in Writers :
        WriteEndl(t)
        /\ UNCHANGED << decodeVars, payloadVars, unpadVars, batchVars >>
    \/ \E t \in Writers :
        LogLeave(t)
        /\ UNCHANGED << decodeVars, payloadVars, unpadVars, batchVars >>

InitOfConsole == NoDecode /\ NoPayload /\ NoUnpad /\ NoBatch /\ InitConsole

SpecConsole == InitOfConsole /\ [][NextConsole]_vars

\* ------------------------------------------------------------------------
\* The key box (C1) and the payload transform (C2)

\* the decode is in the loop of _setup_key_box or past it
KeyBoxStarted ==
    pc \in { "box_loop", "read_meta", "gap", "cover", "open_audio", "payload",
             "dumped" }

\* C1: for key data longer than 17 bytes the key box is a permutation of
\* 0..255 after the identity initialisation, after each of the 256 swap
\* iterations and from the end of construction on, so also whenever a payload
\* byte is descrambled.
C1_KeyBoxIsPermutation ==
    (key_box # << >> /\ Len(key_data) > KeyPrefixLen) => IsPermutation(key_box)

\* the construction has just ended for key data longer than 17 bytes, and
\* the swaps have moved the box away from the identity
C1_BoxBuilt ==
    /\ pc = "read_meta"
    /\ ks.i = 256
    /\ Len(key_data) > KeyPrefixLen
    /\ key_box # IdentityBox

\* C2: applying the payload transform twice, with the same key box and the
\* same indices inside the chunk, gives back the original buffer, whatever
\* the 256-entry box and the buffer are.
C2_TransformIsSelfInverse ==
    passes = 2 => buff = buff_in

\* a buffer longer than 256 bytes has been transformed twice with a key box
\* that changes it
C2_TwiceTransformed ==
    /\ passes = 2
    /\ Len(buff) > 256
    /\ DescrambleChunk(box, buff) # buff

\* ------------------------------------------------------------------------
\* PKCS#7 un-padding (C3)

\* the buffer ends in p bytes of value p, with 1 <= p <= 16
ValidPadding(s) ==
    LET n == Len(s)
        p == s[n]
    IN  /\ 1 <= p /\ p <= 16
        /\ p <= n
        /\ \A k \in (n - p + 1)..n : s[k] = p

\* C3: unpad of an empty buffer gives an empty buffer without an error; of a
\* buffer of n bytes ending in p bytes of value p, 1 <= p <= 16, the first
\* n - p bytes; of any other buffer an invalid-padding error.
C3_UnpadContract ==
    unpadded # NotRun =>
        IF Len(src) = 0
        THEN unpadded.outcome = "copied" /\ unpadded.tgt = << >>
        ELSE IF ValidPadding(src)
        THEN /\ unpadded.outcome = "copied"
             /\ unpadded.tgt = SubSeq(src, 1, Len(src) - src[Len(src)])
        ELSE /\ unpadded.outcome = "thrown"
             /\ unpadded.thrown \in { "Invalid PKCS#7 padding length",
                                      "Invalid PKCS#7 padding bytes" }

\* ------------------------------------------------------------------------
\* Malformed containers (C4, C5, C6)

\* the key length the file states in its bytes 10..13
KeyLenField == little_int(SubSeq(file, HeaderLen + 1, HeaderLen + 4))

\* the file has a key length field, which claims more bytes than remain
KeyBlockTruncated ==
    /\ Len(file) >= HeaderLen + 4
    /\ KeyLenField > Len(file) - (HeaderLen + 4)

\* where the metadata length field starts
MetaLenOffset == HeaderLen + 4 + KeyLenField

\* the file has the whole key block and a metadata length field of zero
MetaLenZero ==
    /\ Len(file) >= HeaderLen + 4
    /\ KeyLenField >= 0
    /\ Len(file) >= MetaLenOffset + 4
    /\ little_int(SubSeq(file, MetaLenOffset + 1, MetaLenOffset + 4)) = 0

\* C4: when the key length field claims more bytes than remain in the file,
\* the decode fails in _read_key_data: no key box is built from the partly
\* read key block, no later region is parsed, no audio file is produced and
\* the decode never reports success.
C4_TruncatedKeyBlockFails ==
    KeyBlockTruncated =>
        /\ pc \in { "ncmDump", "header", "read_key", "dump_catch",
                    "ncmDump_catch", "returned" }
        /\ key_box = << >>
        /\ ~audio_file.opened
        /\ result # "success"

\* C5: a container whose metadata length is zero does not crash the decode,
\* and the decode never reads "format" from a document that has no such
\* member.
C5_EmptyMetadataDoesNotCrash ==
    MetaLenZero =>
        /\ result # "crash"
        /\ "format_not_in_document" \notin observed

\* every read so far got all the bytes it asked for
AllReadInFull ==
    "length_not_read" \notin observed /\ "short_read" \notin observed

\* C6: key data of 17 bytes or fewer, unwrapped from a key block that was
\* read in full, is rejected before the key box is built: the loop of
\* _setup_key_box is not entered, so that key_data_use is never read at or
\* past the end of the key data and key_len_unpad - 17 is never used as zero
\* or wrapped around, and the decode does not succeed.
C6_ShortSeedIsRejected ==
    (Len(key_data) <= KeyPrefixLen /\ AllReadInFull) =>
        /\ ~KeyBoxStarted
        /\ "key_data_out_of_bounds" \notin observed
        /\ result # "success"

\* ------------------------------------------------------------------------
\* The stages of a decode (C7, C8)

\* the stage a decode is in, numbered in the order NcmFile::dump runs them:
\* 0 not started, 1 Header, 2 KeyBlock (the key data and its key box),
\* 3 MetaBlock, 4 Gap, 5 CoverBlock, 6 AudioPayload, 7 Done, 8 failed
StageRank(p, r) ==
    CASE p = "ncmDump" -> 0
      [] p = "header" -> 1
      [] p \in { "read_key", "box_init", "box_loop" } -> 2
      [] p = "read_meta" -> 3
      [] p = "gap" -> 4
      [] p = "cover" -> 5
      [] p \in { "open_audio", "payload" } -> 6
      [] p = "dumped" \/ (p = "returned" /\ r = "success") -> 7
      [] OTHER -> 8

\* a step stays in its stage, goes on to the next one, or fails
StageStep ==
    LET a == StageRank(pc, result)
        b == StageRank(pc', result')
    IN  \/ b = a
        \/ a < 7 /\ b = a + 1
        \/ a < 7 /\ b = 8

\* C7: a decode goes through Header, KeyBlock, MetaBlock, Gap, CoverBlock,
\* AudioPayload and Done in this order, never back, never skipping a stage
\* and never entering one again; and the audio file is open only in the
\* AudioPayload stage or after it, under the extension that the "format"
\* member of the parsed metadata gives.
C7_StagesInOrder ==
    /\ [][StageStep]_vars
    /\ [](audio_file.opened =>
            /\ pc \in { "payload", "dumped", "returned" }
            /\ metadata.type = "object"
            /\ metadata.has_format
            /\ audio_file.ext = << 46 >> \o metadata.format)

\* a decode has gone through every stage: it has written a cover and some
\* audio and has returned
C7_AllStagesDone ==
    /\ pc = "returned"
    /\ result = "success"
    /\ cover_file.opened
    /\ audio_file.opened
    /\ Len(audio_file.data) > 0

\* a stage has failed: it threw, it read fewer bytes of its block than the
\* length field said, or it could not open its output file
StageFailed ==
    \/ thrown # ""
    \/ "short_read" \in observed
    \/ "output_not_opened" \in observed

\* C8: once a stage has failed the decode is aborted: every further step is
\* a step of the failure path (no later stage runs, none is run again), and
\* what the caller of ncmDump sees is not a success.
C8_StageFailureAborts ==
    [][StageFailed =>
          /\ pc' \in { "dump_catch", "ncmDump_catch", "returned" }
          /\ result' # "success"]_vars

\* ------------------------------------------------------------------------
\* The batch (C9, C10)

\* the batch is over: run has returned, or the process has died
BatchOver == main = "returned" \/ ~alive

\* C9: whatever the decodes of the other files do, when the batch is over
\* every file of the batch has had its decode run to its end (or its own
\* output directory could not be made) and its outcome logged.
C9_SiblingDecodesRun ==
    BatchOver =>
        \A f \in 1..files :
            /\ decoded[f] \in { "success", "exception", "no_directory" }
            /\ << "Completed", f >> \in logged \/ << "Error", f >> \in logged

\* the decodes that returned normally
Succeeded == { f \in BatchFiles : decoded[f] = "success" }

\* every file has been enqueued and no task is queued or running
AllDecodesFinished ==
    /\ enqueued = files
    /\ tasks = << >>
    /\ \A t \in Threads : worker[t].pc \in { "lock", "blocked", "exited" }

\* C10: total_pieces_ never decreases, and once all the queued decodes have
\* finished it is the number of decodes that returned normally.
C10_CounterExact ==
    /\ [][total_pieces_' >= total_pieces_]_vars
    /\ [](total_pieces_ <= Cardinality(Succeeded))
    /\ [](AllDecodesFinished => total_pieces_ = Cardinality(Succeeded))

\* a batch has ended in which two decodes succeeded and one failed
C10_TwoCountedOneFailed ==
    /\ main = "returned"
    /\ total_pieces_ = 2
    /\ \E f \in BatchFiles : decoded[f] = "exception"

\* ------------------------------------------------------------------------
\* The regions of the container as its length fields give them

\* the metadata length the file states
MetaLenField == little_int(SubSeq(file, MetaLenOffset + 1, MetaLenOffset + 4))

\* where the cover length field starts: after the metadata and the gap
CoverLenOffset == MetaLenOffset + 4 + MetaLenField + GapLen

\* imageLen, the cover length the file states
CoverLenField == little_int(SubSeq(file, CoverLenOffset + 1, CoverLenOffset + 4))

\* where the audio payload starts
PayloadOffset == CoverLenOffset + 4 + CoverLenField

\* the file holds every region up to the cover length field, in full
CoverLengthPresent ==
    /\ Len(file) >= HeaderLen + 4
    /\ KeyLenField >= 0
    /\ Len(file) >= MetaLenOffset + 4
    /\ MetaLenField >= 0
    /\ Len(file) >= CoverLenOffset + 4

\* ------------------------------------------------------------------------
\* The chunks of the payload (C13): the payload stage of a decode on its
\* own, for payloads of several chunks

\* the payload lengths: none, around the period of the keystream, around one
\* chunk, and a chunk and more than a period
PayloadLens ==
    { 0, 1, 255, 256, 257, ChunkSize - 1, ChunkSize, ChunkSize + 1,
      ChunkSize + 300 }

\* a payload of n bytes
PayloadOf(n) == [k \in 1..n |-> (7 * k + k \div 256) % 256]

\* a well-formed container with each of the payloads
\* the key blocks of the long files: keys of 18, 20 and 31 bytes
LongKeyBlocks == { KeyBlock18, KeyBlock20, KeyBlock31 }

LongFiles ==
    { Container(k, MetaFlac, Cover3, PayloadOf(n)) :
        k \in LongKeyBlocks, n \in PayloadLens }

\* _key_data after _read_key_data has read a key block in full
KeyDataOf(keyBlock) ==
    LET key_len == Len(keyBlock)
        key_data_bin == XorMask(keyBlock, key_len, KeyMask)
    IN  unpad(aes_ecb_decrypt(key_data_bin, key_len, CoreRoundKeys), key_len).tgt

\* one iteration of the loop of _setup_key_box on the box and the locals
\* st, for a _key_data of more than 17 bytes (every read of key_data_use is
\* inside the vector)
KeyScheduleStep(kd, st) ==
    LET c == NextC(st.box, st.i, st.last_byte, kd[KeyIndex(st.key_offset) + 1])
    IN  [ box |-> SwapEntries(st.box, st.i, c),
          i |-> st.i + 1,
          last_byte |-> c,
          key_offset |-> NextKeyOffset(st.key_offset, Len(kd)) ]

RECURSIVE KeySchedule(_, _, _)
\* the iterations from i = st.i until i = end: those up to the middle, then
\* the others
KeySchedule(kd, st, end) ==
    IF st.i = end THEN st
    ELSE IF st.i + 1 = end THEN KeyScheduleStep(kd, st)
    ELSE KeySchedule(kd, KeySchedule(kd, st, (st.i + end) \div 2), end)

\* _setup_key_box as a whole: the 256 iterations from the identity box
KeyBoxOf(kd) ==
    KeySchedule(kd, [box |-> IdentityBox, i |-> 0, last_byte |-> 0,
                     key_offset |-> 0], 256)

\* "flac"
Flac == << 102, 108, 97, 99 >>

\* a decode that is about to read the first chunk: the key data has been
\* read and the key box built from it, the metadata and the cover have been
\* read, the cover is written and the audio file is open
InitChunks ==
    /\ file \in LongFiles
    /\ pos = PayloadOffset
    /\ failbit = FALSE
    /\ pc = "payload"
    /\ key_data = KeyDataOf(SubSeq(file, HeaderLen + 5, HeaderLen + 4 + KeyLenField))
    /\ LET st == KeyBoxOf(key_data)
       IN  /\ key_box = st.box
           /\ ks = [i |-> 256, last_byte |-> st.last_byte,
                    key_offset |-> st.key_offset]
    /\ metadata = [type |-> "object", has_format |-> TRUE, format |-> Flac]
    /\ cover_file = [opened |-> TRUE, ext |-> << 46, 106, 112, 103 >>,
                     data |-> Cover3, zeros |-> 0, stack_bytes |-> 0]
    /\ audio_file = [opened |-> TRUE, ext |-> << 46 >> \o Flac, data |-> << >>,
                     zeros |-> 0, stack_bytes |-> 0]
    /\ thrown = ""
    /\ result = "running"
    /\ observed = {}

\* the reads of the payload loop, then the return
NextChunks ==
    \/ DumpChunk /\ UNCHANGED << payloadVars, unpadVars, batchVars, consoleVars >>
    \/ Return /\ UNCHANGED << payloadVars, unpadVars, batchVars, consoleVars >>

InitOfChunks == InitChunks /\ NoPayload /\ NoUnpad /\ NoBatch /\ NoConsole

SpecChunks == InitOfChunks /\ [][NextChunks]_vars


\* C13: the audio written so far is the payload read so far, and its byte at
\* absolute offset n is the payload byte at n transformed with the keystream
\* byte of j = (n + 1) mod 256, although the index starts again at 0 with
\* every chunk; at the end all the payload has been written.
C13_ChunkedEqualsAbsolute ==
    (audio_file.opened /\ AllReadInFull) =>
        LET start == PayloadOffset
            written == audio_file.data
        IN  /\ Len(written) = pos - start
            /\ \A n \in 0..(Len(written) - 1) :
                written[n + 1] =
                    ApplyKeystream(file[start + n + 1], KeystreamByte(key_box, n))
            /\ pc \in { "dumped", "returned" } =>
                   Len(written) = Len(file) - start

\* a payload of one whole chunk and a shorter one has been written, and the
\* byte after the chunk boundary was changed by the transform
C13_SecondChunkWritten ==
    /\ pc = "payload"
    /\ Len(audio_file.data) > ChunkSize
    /\ Len(audio_file.data) % ChunkSize # 0
    /\ audio_file.data[ChunkSize + 1] # file[PayloadOffset + ChunkSize + 1]

\* ------------------------------------------------------------------------
\* The cover and the output files (C14, C15)

\* C14: when the cover stage is over, the cursor is at the end of the cover
\* region that the length field gives; a cover of imageLen > 0 bytes has
\* been written to <base>.jpg as it is in the file, and for imageLen = 0
\* there is no cover file.  (Stated for a cover file that could be opened;
\* one that could not is the matter of C15.)
C14_CoverRegionConsumed ==
    (/\ pc = "open_audio"
     /\ CoverLengthPresent
     /\ "output_not_opened" \notin observed) =>
        /\ pos = CoverLenOffset + 4 + CoverLenField
        /\ IF CoverLenField > 0
           THEN /\ cover_file.opened
                /\ cover_file.ext = << 46, 106, 112, 103 >>
                /\ cover_file.data =
                       SubSeq(file, CoverLenOffset + 5,
                              CoverLenOffset + 4 + CoverLenField)
                /\ cover_file.zeros = 0
                /\ cover_file.stack_bytes = 0
           ELSE ~cover_file.opened

\* C15: when an output file, the cover or the audio, could not be opened
\* (in the decode of a container that was read in full so far and whose
\* metadata names a format), the decode is on its failure path with an
\* exception in flight, or has ended in a failure: it never goes on and
\* never reports success.
C15_OutputErrorsPropagate ==
    (/\ "output_not_opened" \in observed
     /\ AllReadInFull
     /\ HasFormat(metadata)) =>
        /\ pc \in { "dump_catch", "ncmDump_catch", "returned" }
        /\ thrown # ""
        /\ result # "success"

\* ------------------------------------------------------------------------
\* The console (C11)

\* the thread has begun a line and has not ended it
MidLine(t) == writer[t].at = "endl"

\* C11: no two threads are inside a line write at the same time, whether
\* the line is written by log() or by the decoder, and a thread is inside a
\* line write only while it holds log_mtx.
C11_LineWritesSerialized ==
    /\ \A t, u \in Writers : (MidLine(t) /\ MidLine(u)) => t = u
    /\ \A t \in Writers : MidLine(t) => log_mtx = t

\* ------------------------------------------------------------------------
\* The exit status (C12)

\* a fatal condition has occurred: a file list was read and it is missing,
\* unreadable or empty, or the two lists differ in length; or an exception
\* reached the catch block of run
FatalCondition ==
    \/ input_files # -1 /\ ~ListsUsable(input_files, output_files)
    \/ << "Fatal error", 0 >> \in logged

\* C12: when run has returned, its exit status is non-zero exactly when a
\* fatal condition occurred, and it is zero when the batch ran, in which
\* case every file of the batch has been processed to its end, whatever the
\* decodes of the others did.
C12_ExitStatusReflectsFatal ==
    main = "returned" =>
        /\ (exit_status # 0) <=> FatalCondition
        /\ \A f \in 1..files : finished[f] = 1

\* ------------------------------------------------------------------------
\* The worker pool (C16, C17, C18)

\* the files whose task has been taken from the queue and has not returned
Executing == { f \in BatchFiles : taken[f] > finished[f] }

\* C16: at most NumThreads tasks are executing at the same time, however
\* many are queued, and no task is taken from the queue more than once.
C16_ConcurrencyBound ==
    /\ Cardinality(Executing) <= NumThreads
    /\ \A f \in BatchFiles : taken[f] <= 1
    /\ \A t, u \in Threads :
        (worker[t].task # 0 /\ worker[t].task = worker[u].task) => t = u

\* every pool thread is executing a task while another task waits in the
\* queue
C16_PoolSaturated ==
    /\ Cardinality(Executing) = NumThreads
    /\ \A t \in Threads : worker[t].pc = "ncmDump"
    /\ tasks # << >>

\* the destructor of the pool has returned
PoolDestroyed == stop /\ main \in { "report", "returned" }

\* C17: no task is executed more than once; a pool thread has exited only
\* if the queue is empty; when the destructor has returned every enqueued
\* task has been executed exactly once; and, under fair scheduling, once the
\* destructor has set stop every pool thread exits and the destructor
\* returns, unless a decode kills the process.
C17_ShutdownDrains ==
    /\ [](\A f \in BatchFiles : taken[f] <= 1 /\ finished[f] <= taken[f])
    /\ []((\E t \in Threads : worker[t].pc = "exited") => tasks = << >>)
    /\ [](PoolDestroyed =>
            /\ Joined
            /\ \A f \in 1..enqueued : taken[f] = 1 /\ finished[f] = 1)
    /\ (stop ~> (PoolDestroyed \/ ~alive))

\* the destructor has returned, and every file of a full batch has been
\* executed once
C17_DrainedAfterStop ==
    /\ PoolDestroyed
    /\ enqueued = NumFiles
    /\ \A f \in BatchFiles : finished[f] = 1

\* no pool thread is in a task
NoDecodeRunning ==
    \A t \in DOMAIN worker :
        worker[t].pc \in { "not_started", "lock", "blocked", "exited" }

\* C18: when run logs the total and when it returns, no decode is queued or
\* running, and the total it logs is the number of decodes that returned
\* normally.
C18_ReportedTotalIsFinal ==
    (reported_total # -1 \/ main \in { "report", "returned" }) =>
        /\ NoDecodeRunning
        /\ tasks = << >>
        /\ \A f \in 1..files :
               decoded[f] \in { "success", "exception", "no_directory" }
        /\ total_pieces_ = Cardinality(Succeeded)
        /\ reported_total \in { -1, Cardinality(Succeeded) }

\* run has returned after a batch in which one decode succeeded and the
\* others failed, and has logged a total of one
C18_TotalReported ==
    /\ main = "returned"
    /\ exit_status = 0
    /\ files = NumFiles
    /\ reported_total = 1
    /\ Cardinality(Succeeded) = 1

\* ------------------------------------------------------------------------
\* pad_size and the bounds of its buffer (C19)

\* the first index of the validation loop, len_ - padlen, as the unsigned
\* subtraction leaves it: below zero here stands for a wrapped value
PadStart(s) == Len(s) - s[Len(s)]

\* the last byte is a padding length the range check of pad_size accepts
PadLenAccepted(s) == 1 <= s[Len(s)] /\ s[Len(s)] <= 16

\* C19: for a non-empty buffer of n bytes given to unpad, every index the
\* validation loop of pad_size inspects is one of 0..n-1, the start index
\* n - p of an accepted padding length p does not wrap around, the size
\* pad_size returns is not greater than n, and a buffer with an accepted p
\* greater than n is rejected with an invalid-padding error.
C19_PadSizeInBounds ==
    (unpadded # NotRun /\ Len(src) > 0) =>
        LET n == Len(src)
            r == pad_size(src, n)
        IN  /\ PadLoopIndices(n, src[n]) \subseteq 0..(n - 1)
            /\ PadLenAccepted(src) => PadStart(src) >= 0
            /\ r.thrown = "" => ~ULess(n, r.size)
            /\ (PadLenAccepted(src) /\ src[n] > n) =>
                   /\ unpadded.outcome = "thrown"
                   /\ unpadded.thrown \in { "Invalid PKCS#7 padding length",
                                            "Invalid PKCS#7 padding bytes" }

====
